---- MODULE Spec2Model ----
(***************************************************************************)
(* Model of the OpenCode agent runner (container/agent-runner/src/         *)
(* opencode-runner.ts): the worker loop runOpenCode, its mailbox helpers   *)
(* shouldClose / drainIpcInput / waitForIpcMessage and the frame writer    *)
(* writeOutput, run against a host-side publisher that creates message     *)
(* records and the close sentinel in the IPC input directory.              *)
(*                                                                         *)
(* The mailbox is a directory shared by two processes, so every file       *)
(* system call of the worker is a separate step that the publisher may     *)
(* interleave with.  Strings are sequences of tokens: the empty string is  *)
(* <<>>, concatenation is \o.  A prompt is a record of its base text and   *)
(* the newline-separated lines appended to it.                             *)
(***************************************************************************)
EXTENDS Integers, Sequences, FiniteSets, TLC

\* ---------------------------------------------------------------- bounds
MaxPublish == 2
MaxClose == 2

\* ------------------------------------------------------------- constants
Kinds == {"message", "other", "malformed"}
NoSession == "none"
PriorSession == "s_prior"
FreshSession == "s_fresh"
NoError == "none"
Null == <<"<null>">>
EmptyText == <<>>
NotifyTexts == {<<"n1">>, <<"n1", "n2">>}
Errors == {"backend error", "request timed out"}
\* reply bodies the backend may return: no parts, and a tool part between two
\* text parts
Replies ==
  { <<>>,
    <<[type |-> "text", text |-> <<"r1">>], [type |-> "tool", text |-> EmptyText],
      [type |-> "text", text |-> <<"r2">>]>> }
\* the envelopes a worker is launched with
Envelopes ==
  { [sessionId |-> NoSession, isScheduledTask |-> FALSE],
    [sessionId |-> PriorSession, isScheduledTask |-> TRUE] }

VARIABLES
  mailbox,          \* message records present under IPC_INPUT_DIR
  sentinel,         \* TRUE iff IPC_INPUT_CLOSE_SENTINEL exists
  published,        \* number of records published so far (names are 1..published)
  closeCalls,       \* number of requestClose calls so far
  envelope,         \* the ContainerInput read at launch
  backendSessions,  \* session identifiers the backend holds
  pc,               \* the worker's position in runOpenCode
  sessionId,        \* const sessionId of runOpenCode
  prompt,           \* let prompt of runOpenCode
  lastAssistantText,\* let lastAssistantText of runOpenCode
  out,              \* lines written to stdout, in order
  scSite,           \* which call of shouldClose is running: "post_round" | "poll"
  drainSite,        \* which call of drainIpcInput is running: "initial" | "poll"
  files,            \* drainIpcInput: sorted listing still to process
  messages,         \* drainIpcInput: texts collected so far
  hist,             \* history of the run and of its environment; never read by the code
  root,             \* TRUE iff the directory IPC_INPUT_DIR exists
  sup,              \* the startup supervisor: ensureDockerRunning and the containers it sees
  handles           \* the backend server handle and the notification listener

vars == <<handles, sup, root, mailbox, sentinel, published, closeCalls, envelope, backendSessions, pc,
          sessionId, prompt, lastAssistantText, out, scSite, drainSite, files,
          messages, hist>>

mboxVars == <<mailbox, sentinel, published, closeCalls>>
drainVars == <<drainSite, files, messages>>

\* --------------------------------------------------------------- helpers
Range(s) == {s[i] : i \in 1..Len(s)}

RECURSIVE SortDescending(_)
SortDescending(S) ==
  IF S = {} THEN <<>>
  ELSE LET m == CHOOSE x \in S : \A y \in S : y <= x
       IN <<m>> \o SortDescending(S \ {m})

\* Array.prototype.sort() on the listed names; the publisher names records so
\* that the lexical order of names is the numeric order modelled here
RECURSIVE SortNames(_)
SortNames(S) ==
  IF S = {} THEN <<>>
  ELSE LET m == CHOOSE x \in S : \A y \in S : x <= y
       IN <<m>> \o SortNames(S \ {m})

\* readdirSync(IPC_INPUT_DIR).filter(f => f.endsWith('.json')): the names of
\* the message records; the sentinel "_close" has no .json suffix
ListJson(mb) == {r.name : r \in mb}

RecordNamed(mb, n) == CHOOSE r \in mb : r.name = n

\* extractText: join('') of the text of every part of type text with a text
RECURSIVE extractText(_)
extractText(parts) ==
  IF parts = <<>> THEN EmptyText
  ELSE LET p == Head(parts)
       IN (IF p.type = "text" /\ p.text # EmptyText THEN p.text ELSE EmptyText)
            \o extractText(Tail(parts))

\* lines 242-248: result of a round whose backend call returned
RoundResult(parts, last) ==
  LET r == IF extractText(parts) # EmptyText THEN extractText(parts) ELSE Null
  IN IF r = Null /\ last # EmptyText THEN last ELSE r

\* writeOutput: three console.log lines, the markers around JSON.stringify
StartLine == <<"---NANOCLAW_OUTPUT_START---">>
EndLine == <<"---NANOCLAW_OUTPUT_END---">>
JsonLine(output) == <<"json", output>>

writeOutputDropped(o, output) == o

writeOutput(o, output) == o \o <<StartLine, JsonLine(output), EndLine>>

\* log: console.error, a line on stderr; stdout is left as it is
logToStdout(o, message) == Append(o, <<"log", message>>)

log(o, message) == o

\* the payloads of the stream, in order: what sits between a start and an end line
RECURSIVE Frames(_)
Frames(o) ==
  IF Len(o) < 3 THEN <<>>
  ELSE IF o[1] = StartLine /\ Len(o[2]) = 2 /\ o[3] = EndLine
       THEN <<o[2][2]>> \o Frames(SubSeq(o, 4, Len(o)))
       ELSE Frames(Tail(o))

Last(s) == s[Len(s)]

\* the three writeOutput payloads of runOpenCode
SuccessFrame(sid, result) ==
  [status |-> "success", result |-> result, newSessionId |-> sid, error |-> NoError]

ErrorFrameNoMessage(sid, msg) ==
  [status |-> "error", result |-> Null, newSessionId |-> sid, error |-> NoError]

ErrorFrame(sid, msg) ==
  [status |-> "error", result |-> Null, newSessionId |-> sid, error |-> msg]

SessionUpdateFrameNoSession(sid) ==
  [status |-> "success", result |-> Null, newSessionId |-> NoSession, error |-> NoError]

SessionUpdateFrameWithResult(sid) ==
  [status |-> "success", result |-> <<"r1">>, newSessionId |-> sid, error |-> NoError]

SessionUpdateFrame(sid) ==
  [status |-> "success", result |-> Null, newSessionId |-> sid, error |-> NoError]

\* line 218-221: the prompt before the initial drain
InitialPrompt(env) ==
  [base |-> IF env.isScheduledTask THEN "scheduled" ELSE "envelope", lines |-> <<>>]

\* line 225: prompt += '\n' + pending.join('\n')
AppendPendingReplacing(p, pending) == [base |-> "none", lines |-> pending]

AppendPending(p, pending) == [p EXCEPT !.lines = p.lines \o pending]

\* line 96 / 286: the next prompt is messages.join('\n')
JoinedPrompt(msgs) == [base |-> "none", lines |-> msgs]

\* ------------------------------------------------------------------ Init
WorkerInit ==
  /\ mailbox = {}
  /\ sentinel = FALSE
  /\ published = 0
  /\ closeCalls = 0
  /\ envelope \in Envelopes
  /\ backendSessions \in {{}, {PriorSession}}
  /\ pc = "start"
  /\ sessionId = NoSession
  /\ prompt = [base |-> "none", lines |-> <<>>]
  /\ lastAssistantText = EmptyText
  /\ out = <<>>
  /\ scSite = "post_round"
  /\ drainSite = "initial"
  /\ files = <<>>
  /\ messages = <<>>
  /\ handles = [server |-> "none", listener |-> "none"]
  /\ hist = [ afterClose |-> {},        \* names published after a requestClose
              observed |-> FALSE,       \* the worker has seen the sentinel
              submitted |-> <<>>,       \* backend calls made: session and prompt, in order
              outcomes |-> <<>>,        \* how each finished backend call ended, in order
              negChecks |-> 0,          \* post-round shouldClose calls that returned false
              listed |-> {},            \* records present at the last listing
              drained |-> <<>>,         \* what the last finished drain returned
              drains |-> FALSE,         \* some drain has finished
              pubSinceList |-> FALSE,   \* a publish happened since the last listing
              quiet |-> FALSE,          \* the running drain listed with no publish since the one before
              scCalls |-> FALSE,        \* some shouldClose call has finished
              scPresent |-> FALSE,      \* sentinel present at the last existsSync
              scResult |-> FALSE,       \* what the last shouldClose returned
              reqSinceCheck |-> FALSE,  \* a requestClose happened since the last existsSync
              overBudget |-> FALSE,     \* the running backend call exceeded the round budget
              timedOut |-> FALSE,       \* some completed round exceeded the round budget
              initial |-> [early |-> {}, returned |-> <<>>],
                                        \* the initial drain: the texts of the well-formed
                                        \* messages it listed, and what it returned
              stolen |-> {},            \* names of records removed by another actor
              scRaced |-> FALSE,        \* the sentinel was removed by another actor between
                                        \* the existsSync and the unlinkSync of shouldClose
              scRoot |-> TRUE,          \* the mailbox root existed at the last existsSync
              listRoot |-> TRUE,        \* the mailbox root existed when the last drain began
              staleNote |-> EmptyText,  \* the tracked text when the running round began
              roundNote |-> EmptyText,  \* latest text notification since the running round began
              exitPath |-> "none" ]

\* the supervisor before ensureDockerRunning is called
SupIdle == [pc |-> "idle", running |-> {}, orphans |-> <<>>, stopSent |-> {}, listed |-> {}]

Init ==
  /\ WorkerInit
  /\ root = TRUE
  /\ sup = SupIdle

\* ------------------------------------------------- publisher (host side)
\* publish(text): a new record whose name is greater than every earlier name
Publish(kind) ==
  /\ published < MaxPublish
  /\ published' = published + 1
  /\ root' = TRUE
  /\ mailbox' = mailbox \cup {[name |-> published + 1, kind |-> kind, text |-> published + 1]}
  /\ hist' = [hist EXCEPT !.pubSinceList = TRUE,
                          !.afterClose = IF closeCalls > 0 THEN @ \cup {published + 1} ELSE @]
  /\ UNCHANGED <<handles, sup, sentinel, closeCalls, envelope, backendSessions, pc, sessionId, prompt,
                 lastAssistantText, out, scSite, drainSite, files, messages>>

\* requestClose(): create the sentinel record
RequestClose ==
  /\ closeCalls < MaxClose
  /\ closeCalls' = closeCalls + 1
  /\ sentinel' = TRUE
  /\ root' = TRUE
  /\ hist' = [hist EXCEPT !.reqSinceCheck = TRUE]
  /\ UNCHANGED <<handles, sup, mailbox, published, envelope, backendSessions, pc, sessionId, prompt,
                 lastAssistantText, out, scSite, drainSite, files, messages>>

\* ------------------------------------------------------------ shouldClose
\* where runOpenCode / poll continue after shouldClose returned
AfterShouldCloseIgnoring(site, result) ==
  IF site = "post_round" THEN "announce" ELSE "drain_list"

AfterShouldCloseEager(site, result) ==
  IF result \/ site = "poll" THEN "cleanup" ELSE "announce"

AfterShouldCloseStaying(site, result) ==
  IF site = "post_round" THEN IF result THEN "cleanup" ELSE "announce"
  ELSE "drain_list"

AfterShouldCloseDraining(site, result) ==
  IF result THEN IF site = "post_round" THEN "drain_list" ELSE "cleanup"
  ELSE IF site = "post_round" THEN "announce" ELSE "drain_list"

AfterShouldClose(site, result) ==
  IF result THEN "cleanup"
  ELSE IF site = "post_round" THEN "announce" ELSE "drain_list"

\* the sentinel after the body of the if in shouldClose
UnlinkSentinelKeep(present) == present

UnlinkSentinel(present) == FALSE

\* fs.existsSync(IPC_INPUT_CLOSE_SENTINEL); the false branch returns at once
ShouldCloseExists ==
  /\ pc = "close_exists"
  /\ pc' = IF sentinel THEN "close_unlink" ELSE AfterShouldClose(scSite, FALSE)
  /\ hist' = [hist EXCEPT !.scPresent = sentinel,
                          !.scRoot = root,
                          !.scRaced = FALSE,
                          !.reqSinceCheck = FALSE,
                          !.scResult = IF sentinel THEN @ ELSE FALSE,
                          !.scCalls = IF sentinel THEN @ ELSE TRUE,
                          !.negChecks = IF ~sentinel /\ scSite = "post_round" THEN @ + 1 ELSE @]
  /\ UNCHANGED <<handles, sup, root, mboxVars, envelope, backendSessions, sessionId, prompt,
                 lastAssistantText, out, scSite, drainVars>>

\* try { fs.unlinkSync(IPC_INPUT_CLOSE_SENTINEL) } catch {}; return true
ShouldCloseUnlink ==
  /\ pc = "close_unlink"
  /\ sentinel' = UnlinkSentinel(sentinel)
  /\ pc' = AfterShouldClose(scSite, TRUE)
  /\ hist' = [hist EXCEPT !.observed = TRUE,
                          !.scResult = TRUE,
                          !.scCalls = TRUE,
                          !.exitPath = scSite]
  /\ UNCHANGED <<handles, sup, root, mailbox, published, closeCalls, envelope, backendSessions, sessionId,
                 prompt, lastAssistantText, out, scSite, drainVars>>

\* ---------------------------------------------------------- drainIpcInput
\* data.type === 'message' && data.text: what one parsed record adds
Contribution(r) == IF r.kind = "message" THEN <<r.text>> ELSE <<>>

\* the body of the for loop for one listed name f: read, parse, unlink, push;
\* a record that is gone or does not parse is logged, unlinked and skipped
ProcessFileKeep(mb, msgs, f) ==
  IF \E r \in mb : r.name = f
  THEN LET r == RecordNamed(mb, f)
       IN [mailbox |-> mb,
           messages |-> IF r.kind = "malformed" THEN msgs ELSE msgs \o Contribution(r)]
  ELSE [mailbox |-> mb, messages |-> msgs]

ProcessFileKeepMalformed(mb, msgs, f) ==
  IF \E r \in mb : r.name = f
  THEN LET r == RecordNamed(mb, f)
       IN IF r.kind = "malformed"
          THEN [mailbox |-> mb, messages |-> msgs]
          ELSE [mailbox |-> mb \ {r}, messages |-> msgs \o Contribution(r)]
  ELSE [mailbox |-> mb, messages |-> msgs]

ProcessFileDroppingText(mb, msgs, f) ==
  IF \E r \in mb : r.name = f
  THEN [mailbox |-> mb \ {RecordNamed(mb, f)}, messages |-> msgs]
  ELSE [mailbox |-> mb, messages |-> msgs]

ProcessFileAborting(mb, msgs, f) ==
  IF \E r \in mb : r.name = f
  THEN LET r == RecordNamed(mb, f)
       IN [mailbox |-> mb \ {r},
           messages |-> IF r.kind = "malformed" THEN msgs ELSE msgs \o Contribution(r)]
  ELSE [mailbox |-> mb, messages |-> <<>>]

ProcessFileSweeping(mb, msgs, f) ==
  IF \E r \in mb : r.name = f
  THEN LET r == RecordNamed(mb, f)
       IN [mailbox |-> {},
           messages |-> IF r.kind = "malformed" THEN msgs ELSE msgs \o Contribution(r)]
  ELSE [mailbox |-> mb, messages |-> msgs]

ProcessFile(mb, msgs, f) ==
  IF \E r \in mb : r.name = f
  THEN LET r == RecordNamed(mb, f)
       IN [mailbox |-> mb \ {r},
           messages |-> IF r.kind = "malformed" THEN msgs ELSE msgs \o Contribution(r)]
  ELSE [mailbox |-> mb, messages |-> msgs]

\* mkdirSync, readdirSync, filter, sort
DrainList ==
  /\ pc = "drain_list"
  /\ root' = TRUE
  /\ files' = SortNames(ListJson(mailbox))
  /\ messages' = <<>>
  /\ pc' = "drain_file"
  /\ hist' = [hist EXCEPT !.listed = mailbox,
                          !.listRoot = root,
                          !.quiet = (hist.drains /\ ~hist.pubSinceList),
                          !.pubSinceList = FALSE]
  /\ UNCHANGED <<handles, sup, mboxVars, envelope, backendSessions, sessionId, prompt,
                 lastAssistantText, out, scSite, drainSite>>

\* one iteration of the for loop
DrainFile ==
  /\ pc = "drain_file"
  /\ files # <<>>
  /\ LET res == ProcessFile(mailbox, messages, Head(files))
     IN /\ mailbox' = res.mailbox
        /\ messages' = res.messages
  /\ files' = Tail(files)
  /\ UNCHANGED <<handles, sup, root, sentinel, published, closeCalls, envelope, backendSessions, pc, sessionId,
                 prompt, lastAssistantText, out, scSite, drainSite, hist>>

\* lines 228-234: after the initial drain the while loop begins with the
\* backend call
FirstStepChecking == "close_exists"

FirstStep == "send_prompt"

\* return messages, into the caller: lines 223-226 for the initial drain,
\* lines 95-99 and 280-286 for a poll
DrainReturn ==
  /\ pc = "drain_file"
  /\ files = <<>>
  /\ IF drainSite = "initial"
     THEN /\ prompt' = IF Len(messages) > 0 THEN AppendPending(prompt, messages) ELSE prompt
          /\ pc' = FirstStep
     ELSE IF Len(messages) > 0
          THEN /\ prompt' = JoinedPrompt(messages)
               /\ pc' = "send_prompt"
          ELSE /\ prompt' = prompt
               /\ pc' = "sleep"
  /\ hist' = [hist EXCEPT !.drained = messages,
                          !.drains = TRUE,
                          !.initial = IF drainSite = "initial"
                                      THEN [early |-> {r.text : r \in
                                                       {x \in hist.listed : x.kind = "message"}},
                                            returned |-> messages]
                                      ELSE @]
  /\ UNCHANGED <<handles, sup, root, mboxVars, envelope, backendSessions, sessionId, lastAssistantText, out,
                 scSite, drainVars>>

\* setTimeout(poll, IPC_POLL_MS) fires
PollTimer ==
  /\ pc = "sleep"
  /\ pc' = "close_exists"
  /\ UNCHANGED <<handles, sup, root, mboxVars, envelope, backendSessions, sessionId, prompt,
                 lastAssistantText, out, scSite, drainVars, hist>>

\* ------------------------------------------------------------ runOpenCode
\* createOpencode resolves
StartServer ==
  /\ pc = "start"
  /\ pc' = "create_session"
  /\ handles' = [handles EXCEPT !.server = "open"]
  /\ UNCHANGED <<sup, root, mboxVars, envelope, backendSessions, sessionId, prompt,
                 lastAssistantText, out, scSite, drainVars, hist>>

\* the session the worker uses: lines 186-192 always create one and never
\* read containerInput.sessionId
ResolveSession(env, sessions) == FreshSession

\* client.session.create succeeds; event.subscribe; the initial prompt is built
SessionCreated ==
  /\ pc = "create_session"
  /\ sessionId' = ResolveSession(envelope, backendSessions)
  /\ backendSessions' = backendSessions \cup {sessionId'}
  /\ lastAssistantText' = EmptyText
  /\ prompt' = InitialPrompt(envelope)
  /\ drainSite' = "initial"
  /\ pc' = "drain_list"
  /\ handles' = [handles EXCEPT !.listener = "running"]
  /\ UNCHANGED <<sup, root, mboxVars, envelope, out, scSite, files, messages, hist>>

\* client.session.create reports an error: throw, then the finally block
SessionCreateFails ==
  /\ pc = "create_session"
  /\ pc' = "finally"
  /\ hist' = [hist EXCEPT !.exitPath = "session_error"]
  /\ UNCHANGED <<handles, sup, root, mboxVars, envelope, backendSessions, sessionId, prompt,
                 lastAssistantText, out, scSite, drainVars>>

\* the parts the notification feed may carry: cumulative texts, a text part
\* with no text, a part that is not text
NotifyParts ==
  {[type |-> "text", text |-> t] : t \in NotifyTexts \cup {EmptyText}}
    \cup {[type |-> "tool", text |-> <<"n1">>]}

\* lines 206-209: a text part with a text replaces the tracked value
TrackTextAppending(old, part) ==
  IF part.type = "text" /\ part.text # EmptyText THEN old \o part.text ELSE old

TrackText(old, part) ==
  IF part.type = "text" /\ part.text # EmptyText THEN part.text ELSE old

\* the background eventProcessor sees a message.part.updated event
Notify(part) ==
  /\ pc \in {"drain_list", "drain_file", "send_prompt", "prompting", "close_exists",
             "close_unlink", "announce", "sleep", "cleanup"}
  /\ lastAssistantText' = TrackText(lastAssistantText, part)
  /\ hist' = [hist EXCEPT !.roundNote =
                 IF pc = "prompting" /\ part.type = "text" /\ part.text # EmptyText
                 THEN part.text ELSE @]
  /\ UNCHANGED <<handles, sup, root, mboxVars, envelope, backendSessions, pc, sessionId, prompt, out,
                 scSite, drainVars>>

\* line 231: lastAssistantText = ''
ResetTextKeeping(old) == old

ResetText(old) == EmptyText

\* top of the while loop: reset lastAssistantText, call client.session.prompt
SendPrompt ==
  /\ pc = "send_prompt"
  /\ lastAssistantText' = ResetText(lastAssistantText)
  /\ pc' = "prompting"
  /\ hist' = [hist EXCEPT !.submitted = Append(@, [session |-> sessionId, prompt |-> prompt]),
                          !.overBudget = FALSE,
                          !.staleNote = lastAssistantText,
                          !.roundNote = EmptyText]
  /\ UNCHANGED <<handles, sup, root, mboxVars, envelope, backendSessions, sessionId, prompt, out,
                 scSite, drainVars>>

\* the pending backend call outlives the per-round time budget; the await of
\* line 234 has no timer, so nothing in the worker reacts
RoundBudgetElapses ==
  /\ pc = "prompting"
  /\ ~hist.overBudget
  /\ hist' = [hist EXCEPT !.overBudget = TRUE]
  /\ UNCHANGED <<handles, sup, root, mboxVars, envelope, backendSessions, pc, sessionId, prompt,
                 lastAssistantText, out, scSite, drainVars>>

\* the backend call returns: lines 241-256
PromptReturns(parts) ==
  /\ pc = "prompting"
  /\ out' = writeOutput(log(out, "Got response"),
                      SuccessFrame(sessionId, RoundResult(parts, lastAssistantText)))
  /\ scSite' = "post_round"
  /\ pc' = "close_exists"
  /\ hist' = [hist EXCEPT !.outcomes = Append(@, [threw |-> FALSE, msg |-> NoError,
                                                   late |-> hist.overBudget,
                                                   text |-> extractText(parts)]),
                          !.timedOut = @ \/ hist.overBudget]
  /\ UNCHANGED <<handles, sup, root, mboxVars, envelope, backendSessions, sessionId, prompt,
                 lastAssistantText, drainVars>>

\* the backend call throws: lines 257-266
PromptThrows(msg) ==
  /\ pc = "prompting"
  /\ out' = writeOutput(log(out, "Query error"), ErrorFrame(sessionId, msg))
  /\ scSite' = "post_round"
  /\ pc' = "close_exists"
  /\ hist' = [hist EXCEPT !.outcomes = Append(@, [threw |-> TRUE, msg |-> msg,
                                                   late |-> hist.overBudget,
                                                   text |-> EmptyText]),
                          !.timedOut = @ \/ hist.overBudget]
  /\ UNCHANGED <<handles, sup, root, mboxVars, envelope, backendSessions, sessionId, prompt,
                 lastAssistantText, drainVars>>

\* line 275: the session update frame, then waitForIpcMessage starts polling
Announce ==
  /\ pc = "announce"
  /\ out' = log(writeOutput(out, SessionUpdateFrame(sessionId)), "Waiting for next IPC message")
  /\ scSite' = "poll"
  /\ drainSite' = "poll"
  /\ pc' = "close_exists"
  /\ UNCHANGED <<handles, sup, root, mboxVars, envelope, backendSessions, sessionId, prompt,
                 lastAssistantText, files, messages, hist>>

\* eventStream.return() ends the for await of the eventProcessor
StopListener(h) == [h EXCEPT !.listener = "stopped"]

\* lines 289-291: stop the event stream and the listener
Cleanup ==
  /\ pc = "cleanup"
  /\ pc' = "finally"
  /\ handles' = StopListener(handles)
  /\ UNCHANGED <<sup, root, mboxVars, envelope, backendSessions, sessionId, prompt,
                 lastAssistantText, out, scSite, drainVars, hist>>

\* server.close()
CloseServerLeaking(h) == h

CloseServer(h) == [h EXCEPT !.server = "closed"]

\* lines 292-295: the finally block
StopServer ==
  /\ pc = "finally"
  /\ pc' = "closed"
  /\ handles' = CloseServer(handles)
  /\ UNCHANGED <<sup, root, mboxVars, envelope, backendSessions, sessionId, prompt,
                 lastAssistantText, out, scSite, drainVars, hist>>

\* ------------------------------------------------------------------ Next
Next ==
  \/ \E k \in Kinds : Publish(k)
  \/ RequestClose
  \/ StartServer
  \/ SessionCreated
  \/ SessionCreateFails
  \/ DrainList
  \/ DrainFile
  \/ DrainReturn
  \/ SendPrompt
  \/ RoundBudgetElapses
  \/ \E parts \in Replies : PromptReturns(parts)
  \/ \E msg \in Errors : PromptThrows(msg)
  \/ ShouldCloseExists
  \/ ShouldCloseUnlink
  \/ Announce
  \/ PollTimer
  \/ Cleanup
  \/ StopServer

Spec == Init /\ [][Next]_vars

\* the worker with its notification feed, against a publisher of well-formed
\* messages and a backend with one kind of failure
FeedInit ==
  /\ Init
  /\ envelope.sessionId = NoSession
  /\ backendSessions = {}

FeedNext ==
  \/ Publish("message")
  \/ RequestClose
  \/ StartServer
  \/ SessionCreated
  \/ SessionCreateFails
  \/ \E part \in NotifyParts : Notify(part)
  \/ DrainList
  \/ DrainFile
  \/ DrainReturn
  \/ SendPrompt
  \/ \E parts \in Replies : PromptReturns(parts)
  \/ PromptThrows("backend error")
  \/ ShouldCloseExists
  \/ ShouldCloseUnlink
  \/ Announce
  \/ PollTimer
  \/ Cleanup
  \/ StopServer

FeedSpec == FeedInit /\ [][FeedNext]_vars

\* the worker without its notification feed, under the scheduling of the
\* event loop: a continuation or a timer that is ready is eventually run
LiveNext ==
  \/ Publish("message")
  \/ RequestClose
  \/ StartServer
  \/ SessionCreated
  \/ SessionCreateFails
  \/ DrainList
  \/ DrainFile
  \/ DrainReturn
  \/ SendPrompt
  \/ \E parts \in Replies : PromptReturns(parts)
  \/ PromptThrows("backend error")
  \/ ShouldCloseExists
  \/ ShouldCloseUnlink
  \/ Announce
  \/ PollTimer
  \/ Cleanup
  \/ StopServer

\* the synchronous code of the worker and its poll timer
WorkerStep ==
  \/ DrainList
  \/ DrainFile
  \/ DrainReturn
  \/ SendPrompt
  \/ ShouldCloseExists
  \/ ShouldCloseUnlink
  \/ Announce
  \/ PollTimer
  \/ Cleanup
  \/ StopServer

\* an awaited call to the backend settles
BackendStep ==
  \/ StartServer
  \/ SessionCreated
  \/ SessionCreateFails
  \/ \E parts \in Replies : PromptReturns(parts)
  \/ PromptThrows("backend error")

FairSpec == FeedInit /\ [][LiveNext]_vars /\ WF_vars(WorkerStep)

FairBackendSpec ==
  FeedInit /\ [][LiveNext]_vars /\ WF_vars(WorkerStep) /\ WF_vars(BackendStep)

\* ------------------------------------------- another actor on the mailbox
\* some other process removes the sentinel
ExternalRemoveSentinel ==
  /\ sentinel
  /\ sentinel' = FALSE
  /\ hist' = [hist EXCEPT !.scRaced = @ \/ pc = "close_unlink"]
  /\ UNCHANGED <<handles, sup, root, mailbox, published, closeCalls, envelope, backendSessions, pc,
                 sessionId, prompt, lastAssistantText, out, scSite, drainVars>>

\* some other process removes a message record
ExternalRemoveRecord(r) ==
  /\ r \in mailbox
  /\ mailbox' = mailbox \ {r}
  /\ hist' = [hist EXCEPT !.stolen = @ \cup {r.name}]
  /\ UNCHANGED <<handles, sup, root, sentinel, published, closeCalls, envelope, backendSessions, pc,
                 sessionId, prompt, lastAssistantText, out, scSite, drainVars>>

\* some other process removes the emptied mailbox root (a sentinel or a record
\* exists only inside an existing root)
ExternalRemoveRoot ==
  /\ root
  /\ mailbox = {}
  /\ ~sentinel
  /\ root' = FALSE
  /\ UNCHANGED <<handles, sup, mboxVars, envelope, backendSessions, pc, sessionId, prompt,
                 lastAssistantText, out, scSite, drainVars, hist>>

\* the worker on a mailbox whose root may not exist yet and that another
\* actor deletes from
RaceInit ==
  /\ WorkerInit
  /\ envelope.sessionId = NoSession
  /\ backendSessions = {}
  /\ root \in BOOLEAN
  /\ sup = SupIdle

RaceNext ==
  \/ Publish("message")
  \/ RequestClose
  \/ ExternalRemoveSentinel
  \/ \E r \in mailbox : ExternalRemoveRecord(r)
  \/ ExternalRemoveRoot
  \/ StartServer
  \/ SessionCreated
  \/ SessionCreateFails
  \/ DrainList
  \/ DrainFile
  \/ DrainReturn
  \/ SendPrompt
  \/ \E parts \in Replies : PromptReturns(parts)
  \/ PromptThrows("backend error")
  \/ ShouldCloseExists
  \/ ShouldCloseUnlink
  \/ Announce
  \/ PollTimer
  \/ Cleanup
  \/ StopServer

RaceSpec == RaceInit /\ [][RaceNext]_vars

\* ---------------------------------------------------- startup supervisor
\* ensureDockerRunning.  A container name is a sequence of tokens; the
\* reserved prefix is the token "nanoclaw-".
ReservedPrefix == "nanoclaw-"
ContainerNames ==
  { <<"nanoclaw-", "main">>, <<"nanoclaw-", "family">>,
    <<"my-", "nanoclaw-", "db">>, <<"postgres">> }

HasReservedPrefix(name) == name[1] = ReservedPrefix

\* docker ps --filter name=nanoclaw-: docker keeps the containers whose name
\* contains the given string, anywhere in the name
NameFilter(name) == \E i \in 1..Len(name) : name[i] = ReservedPrefix

\* the Names of the output lines of docker ps, one line per running match
RECURSIVE PsOutput(_)
PsOutput(S) ==
  IF S = {} THEN <<>>
  ELSE LET n == CHOOSE x \in S : TRUE IN <<n>> \o PsOutput(S \ {n})

workerVars == <<handles, root, mailbox, sentinel, published, closeCalls, envelope, backendSessions,
                pc, sessionId, prompt, lastAssistantText, out, scSite, drainSite, files,
                messages, hist>>

SupervisorInit ==
  /\ WorkerInit
  /\ envelope.sessionId = NoSession
  /\ backendSessions = {}
  /\ root = TRUE
  /\ sup \in [pc : {"docker_info"}, running : SUBSET ContainerNames, orphans : {<<>>},
              stopSent : {{}}, listed : {{}}]

\* execSync('docker info') succeeds
DockerInfoOk ==
  /\ sup.pc = "docker_info"
  /\ sup' = [sup EXCEPT !.pc = "docker_ps"]
  /\ UNCHANGED workerVars

\* execSync('docker info') throws: the banner, then the Error is thrown
DockerInfoFails ==
  /\ sup.pc = "docker_info"
  /\ sup' = [sup EXCEPT !.pc = "fatal"]
  /\ UNCHANGED workerVars

\* docker ps succeeds and its lines are parsed into orphans
DockerPs ==
  /\ sup.pc = "docker_ps"
  /\ sup' = [sup EXCEPT !.pc = "stopping",
                        !.orphans = PsOutput({n \in sup.running : NameFilter(n)}),
                        !.listed = sup.running]
  /\ UNCHANGED workerVars

\* docker ps throws: the outer catch logs a warning
DockerPsFails ==
  /\ sup.pc = "docker_ps"
  /\ sup' = [sup EXCEPT !.pc = "done"]
  /\ UNCHANGED workerVars

\* docker stop for the next orphan; a failure (already stopped) is ignored
DockerStop ==
  /\ sup.pc = "stopping"
  /\ sup.orphans # <<>>
  /\ sup' = [sup EXCEPT !.orphans = Tail(@),
                        !.stopSent = @ \cup {Head(sup.orphans)},
                        !.running = @ \ {Head(sup.orphans)}]
  /\ UNCHANGED workerVars

\* the loop over orphans is over
SupervisorDone ==
  /\ sup.pc = "stopping"
  /\ sup.orphans = <<>>
  /\ sup' = [sup EXCEPT !.pc = "done"]
  /\ UNCHANGED workerVars

\* a running container exits on its own
ContainerExits(name) ==
  /\ sup.pc \in {"docker_info", "docker_ps", "stopping"}
  /\ name \in sup.running
  /\ sup' = [sup EXCEPT !.running = @ \ {name}]
  /\ UNCHANGED workerVars

SupervisorNext ==
  \/ DockerInfoOk
  \/ DockerInfoFails
  \/ DockerPs
  \/ DockerPsFails
  \/ DockerStop
  \/ SupervisorDone
  \/ \E name \in ContainerNames : ContainerExits(name)

SupervisorSpec == SupervisorInit /\ [][SupervisorNext]_vars

\* =============================================================== claims
Closing == pc \in {"cleanup", "finally", "closed"}

\* texts of all the messages placed in submitted prompts, in submission order
RECURSIVE Consumed(_)
Consumed(subs) ==
  IF subs = <<>> THEN <<>> ELSE Head(subs).prompt.lines \o Consumed(Tail(subs))

Increasing(s) == \A i \in 1..Len(s) : \A j \in 1..Len(s) : i < j => s[i] < s[j]

\* the drain loop is over and drainIpcInput is about to return messages
DrainDone == pc = "drain_file" /\ files = <<>>

\* C1: no message published after a close request ever reaches a submitted
\* prompt (and so no round and no Result Frame is produced for it)
C1_NoPromptAfterClose ==
  \A i \in 1..Len(hist.submitted) :
    Range(hist.submitted[i].prompt.lines) \cap hist.afterClose = {}

\* C2: once shouldClose has returned true, no backend call is started any more
C2_NoRoundAfterSentinel ==
  [][hist.observed => hist.submitted' = hist.submitted]_vars

C2_Witness ==
  /\ hist.observed
  /\ pc = "closed"
  /\ Len(hist.submitted) >= 2
  /\ mailbox # {}

\* C3: a drain that listed N well-formed records returns exactly their N texts
\* in publish order; a poll hands them on as one newline-joined prompt; a drain
\* with no publish since the listing of the drain before it returns nothing
C3_DrainReturnsPublishOrder ==
  /\ DrainDone =>
       /\ (\A r \in hist.listed : r.kind = "message") =>
            /\ Len(messages) = Cardinality(hist.listed)
            /\ Range(messages) = {r.text : r \in hist.listed}
            /\ Increasing(messages)
       /\ hist.quiet => messages = <<>>
  /\ (pc = "send_prompt" /\ drainSite = "poll") =>
       prompt = [base |-> "none", lines |-> hist.drained]

C3_Witness ==
  /\ DrainDone
  /\ hist.quiet
  /\ Len(hist.drained) >= 2
  /\ \A r \in hist.listed : r.kind = "message"

\* C4: over the whole run every message text is submitted at most once and the
\* texts reach the backend in publish order, across and inside prompts
C4_ConsumedOnceInPublishOrder == Increasing(Consumed(hist.submitted))

C4_Witness ==
  /\ Len(hist.submitted) >= 3
  /\ hist.submitted[2].prompt.lines # <<>>
  /\ hist.submitted[3].prompt.lines # <<>>

\* C5 as claimed: the stream holds exactly one frame per completed round
C5_FramesEqualRounds == Len(Frames(out)) = Len(hist.outcomes)

\* C5 amended: one frame per completed round plus one session update frame per
\* post-round sentinel check that found no sentinel
C5_FramesEqualRoundsPlusUpdates ==
  Len(Frames(out)) =
    Len(hist.outcomes) + hist.negChecks - (IF pc = "announce" THEN 1 ELSE 0)

C5_Witness ==
  /\ Len(hist.outcomes) = 2
  /\ hist.negChecks = 1
  /\ pc = "closed"

\* C6: a worker launched with a prior session the backend still holds reports
\* that session in every frame
C6_ResumesValidSession ==
  (envelope.sessionId # NoSession /\ envelope.sessionId \in backendSessions) =>
    \A i \in 1..Len(Frames(out)) : Frames(out)[i].newSessionId = envelope.sessionId

\* C7: after a round that exceeded the round budget the worker neither drains
\* the mailbox nor waits for input nor starts another round
C7_TimeoutEndsWorker ==
  hist.timedOut => pc \notin {"drain_list", "drain_file", "sleep", "send_prompt", "prompting"}

\* C8: a round that threw leaves an error frame with result null and the
\* error's message, and the worker keeps going: it only closes after it has
\* seen the sentinel
C8_ErrorRoundKeepsWorker ==
  /\ (pc \in {"close_exists", "close_unlink"} /\ scSite = "post_round"
        /\ Last(hist.outcomes).threw) =>
       Last(Frames(out)) = [status |-> "error", result |-> Null,
                            newSessionId |-> sessionId,
                            error |-> Last(hist.outcomes).msg]
  /\ (hist.outcomes # <<>> /\ ~hist.observed) => ~Closing

C8_Witness ==
  /\ closeCalls = 0
  /\ Len(hist.outcomes) >= 1
  /\ hist.outcomes[1].threw
  /\ Len(hist.submitted) >= 2
  /\ hist.submitted[2].session = hist.submitted[1].session
  /\ hist.submitted[2].prompt.lines # <<>>

\* C9: every frame carries the session identifier resolved at startup, the
\* same in all frames and in all backend calls; a follow-up round submits
\* exactly the drained texts
C9_OneSessionInAllFrames ==
  /\ \A i \in 1..Len(Frames(out)) :
       /\ Frames(out)[i].newSessionId # NoSession
       /\ Frames(out)[i].newSessionId = sessionId
  /\ \A i \in 1..Len(hist.submitted) : hist.submitted[i].session = sessionId
  /\ (pc = "prompting" /\ Len(hist.submitted) >= 2) =>
       Last(hist.submitted).prompt = [base |-> "none", lines |-> hist.drained]

C9_Witness ==
  /\ pc = "prompting"
  /\ Len(hist.submitted) = 3
  /\ \E i \in 1..Len(Frames(out)) : Frames(out)[i].status = "error"
  /\ \E i \in 1..Len(Frames(out)) : Frames(out)[i].result \notin {Null}

\* C10: shouldClose returns whether the sentinel was there at its existsSync,
\* and once it has returned the sentinel is gone for as long as no requestClose
\* follows, so the next shouldClose finds nothing
C10_ShouldCloseConsumes ==
  (hist.scCalls /\ pc # "close_unlink") =>
    /\ hist.scResult = hist.scPresent
    /\ ~hist.reqSinceCheck => ~sentinel

C10_Witness ==
  /\ hist.scCalls
  /\ hist.scResult
  /\ ~sentinel
  /\ closeCalls = 1
  /\ pc = "closed"

\* C11: a worker that saw the sentinel and is on its way out, with all its
\* mailbox operations behind it, leaves no sentinel behind, however many
\* requestClose calls were made while it was alive
C11_NoSentinelLeftBehind ==
  (pc \in {"cleanup", "finally"} /\ hist.observed) => ~sentinel

\* C12: the orphan cleanup sends a stop only to instances whose name starts
\* with the reserved prefix
C12_OnlyPrefixedStopped ==
  \A name \in sup.stopSent : HasReservedPrefix(name)

\* C13: stdout is a sequence of whole frames and nothing else: a start marker
\* line, one JSON line, an end marker line, repeated; no log line and no other
\* marker sits inside or between frames
C13_StreamIsWholeFrames ==
  /\ Len(out) % 3 = 0
  /\ \A k \in 0..((Len(out) \div 3) - 1) :
       /\ out[3 * k + 1] = StartLine
       /\ Len(out[3 * k + 2]) = 2
       /\ out[3 * k + 2][1] = "json"
       /\ out[3 * k + 3] = EndLine

C13_Witness ==
  /\ Len(out) >= 12
  /\ \E i \in 1..Len(out) : Len(out[i]) = 2 /\ out[i][2].status = "error"
  /\ \E i \in 1..Len(out) : Len(out[i]) = 2 /\ out[i][2].result # Null

\* C14: when a drain returns, every record it listed is gone from the mailbox,
\* parsed or not, and what it returns is the texts of the listed well-formed
\* messages only, in order
C14_MalformedDeletedAndSkipped ==
  DrainDone =>
    /\ hist.listed \cap mailbox = {}
    /\ Range(messages) = {r.text : r \in {x \in hist.listed : x.kind = "message"}}
    /\ Len(messages) = Cardinality({x \in hist.listed : x.kind = "message"})
    /\ Increasing(messages)

C14_Witness ==
  /\ DrainDone
  /\ \E r \in hist.listed : r.kind = "malformed"
  /\ \E r \in hist.listed : r.kind = "message"
  /\ Len(messages) = 1

\* C15: the result of a round that returned is the reply's text when it has
\* one, else the latest text notification of the round, else null
C15_FallbackIsLatestNotification ==
  (pc \in {"close_exists", "close_unlink"} /\ scSite = "post_round"
     /\ ~Last(hist.outcomes).threw) =>
    Last(Frames(out)).result =
      IF Last(hist.outcomes).text # EmptyText THEN Last(hist.outcomes).text
      ELSE IF hist.roundNote # EmptyText THEN hist.roundNote
      ELSE Null

C15_Witness ==
  /\ pc = "close_exists"
  /\ scSite = "post_round"
  /\ ~Last(hist.outcomes).threw
  /\ Last(hist.outcomes).text = EmptyText
  /\ Last(Frames(out)).result = <<"n1", "n2">>

\* C16: the first prompt is the envelope prompt followed, in name order, by
\* the texts of the well-formed messages the initial drain listed; none of them
\* shows up in the prompt of a later round
C16_InitialDrainFoldedIntoFirstRound ==
  Len(hist.submitted) >= 1 =>
    LET first == hist.submitted[1].prompt
        early == hist.initial.early
    IN /\ first.base = IF envelope.isScheduledTask THEN "scheduled" ELSE "envelope"
       /\ first.lines = hist.initial.returned
       /\ Range(first.lines) = early
       /\ Increasing(first.lines)
       /\ \A i \in 2..Len(hist.submitted) :
            Range(hist.submitted[i].prompt.lines) \cap early = {}

C16_Witness ==
  /\ Len(hist.submitted) >= 1
  /\ Len(hist.submitted[1].prompt.lines) = 2
  /\ Len(hist.outcomes) = 1
  /\ pc = "sleep"

\* the worker is inside waitForIpcMessage
Awaiting ==
  \/ pc = "sleep"
  \/ pc \in {"close_exists", "close_unlink"} /\ scSite = "poll"
  \/ pc \in {"drain_list", "drain_file"} /\ drainSite = "poll"

WasSubmitted(n) ==
  \E i \in 1..Len(hist.submitted) : n \in Range(hist.submitted[i].prompt.lines)

\* C17 as claimed: a well-formed message present while the worker awaits input
\* is eventually part of a submitted prompt, unless a close is requested
C17_FollowUpEventuallySubmitted ==
  \A n \in 1..(MaxPublish + 1) :
    (Awaiting /\ (\E r \in mailbox : r.name = n /\ r.kind = "message"))
      ~> (WasSubmitted(n) \/ closeCalls > 0)

\* C17 amended: the same, in runs where no backend call stays pending for ever
C17_FollowUpSubmittedWhenRoundsEnd ==
  \A n \in 1..(MaxPublish + 1) :
    []<>(pc # "prompting") =>
      ((Awaiting /\ (\E r \in mailbox : r.name = n /\ r.kind = "message"))
         ~> (WasSubmitted(n) \/ closeCalls > 0))

C17_Witness ==
  /\ closeCalls = 0
  /\ pc = "prompting"
  /\ Len(hist.outcomes) >= 1
  /\ WasSubmitted(published)
  /\ Last(hist.submitted).prompt.base = "none"

\* C18 as claimed, in its final state: a worker about to exit after a close
\* was requested during its life has consumed the sentinel
C18_ExitsOnlyAfterConsuming ==
  (pc = "finally" /\ closeCalls > 0) => hist.observed

\* C18 amended: a sentinel present before the worker has left the query loop
\* leads to the worker consuming it and reaching CLOSED, or to CLOSED by a
\* failed session creation
C18_SentinelLeadsToClosed ==
  (sentinel /\ ~Closing)
    ~> (pc = "closed" /\ (hist.observed \/ hist.exitPath = "session_error"))

C18_Witness ==
  /\ pc = "closed"
  /\ hist.observed
  /\ hist.exitPath = "poll"
  /\ Len(hist.outcomes) = 2

\* C19: a worker whose session was set up leaves the loop only after it has
\* seen the sentinel, and with nothing in the mailbox a waiting worker stays
\* waiting
C19_LoopLeftOnlyBySentinel ==
  /\ []((sessionId # NoSession /\ Closing) => hist.observed)
  /\ [][(Awaiting /\ mailbox = {} /\ messages = <<>> /\ ~sentinel) => Awaiting']_vars

C19_Witness ==
  /\ pc = "sleep"
  /\ mailbox = {}
  /\ closeCalls = 0
  /\ published = MaxPublish
  /\ Len(hist.outcomes) >= 2

\* C20: a sentinel removed by another actor under a running shouldClose still
\* makes it return true; a drain returns the texts of the listed messages that
\* no other actor removed, in order, and leaves no listed record behind; with
\* no mailbox root shouldClose returns false and a drain creates the root and
\* returns nothing
C20_DeletionRacesTolerated ==
  /\ []((hist.scRaced /\ pc # "close_unlink") => (hist.scResult /\ Closing))
  /\ []((hist.scCalls /\ pc # "close_unlink" /\ ~hist.scRoot) => ~hist.scResult)
  /\ [](DrainDone =>
          /\ hist.listed \cap mailbox = {}
          /\ Range(messages) =
               {r.text : r \in {x \in hist.listed :
                                  x.kind = "message" /\ x.name \notin hist.stolen}}
          /\ Increasing(messages)
          /\ ~hist.listRoot => messages = <<>>)
  /\ [][(pc = "drain_list" /\ pc' = "drain_file") => root']_vars

C20_Witness ==
  /\ DrainDone
  /\ Cardinality(hist.listed) = 2
  /\ \E r \in hist.listed : r.name \in hist.stolen
  /\ Len(messages) = 1

\* C21: a run that has ended after the server was started ended by one of the
\* three exits and has closed the server handle; on the two sentinel exits the
\* listener was stopped when the server was closed; a run whose session
\* creation failed has written no frame
C21_ServerClosedOnEveryExit ==
  /\ pc = "closed" =>
       /\ hist.exitPath \in {"post_round", "poll", "session_error"}
       /\ handles.server = "closed"
  /\ (handles.server = "closed" /\ hist.exitPath \in {"post_round", "poll"}) =>
       handles.listener = "stopped"
  /\ handles.server = "closed" => pc = "closed"
  /\ hist.exitPath = "session_error" => (out = <<>> /\ Frames(out) = <<>>)

C21_Witness ==
  /\ pc = "closed"
  /\ hist.exitPath = "session_error"
  /\ handles.server = "closed"
  /\ handles.listener = "none"
  /\ mailbox # {}
  /\ sentinel

\* C22: the frames of the stream alternate between a round's frame and a
\* session update; every session update follows a post-round shouldClose that
\* returned false, has status success, result null, no error, and the
\* newSessionId of the round frame just before it
C22_SessionUpdateIsNoOp ==
  LET F == Frames(out)
      updates == hist.negChecks - (IF pc = "announce" THEN 1 ELSE 0)
  IN /\ Len(F) = Len(hist.outcomes) + updates
     /\ updates \in {Len(hist.outcomes) - 1, Len(hist.outcomes)}
     /\ pc = "announce" => (hist.scCalls /\ ~hist.scResult /\ ~hist.scPresent)
     /\ \A i \in 1..Len(F) :
          IF i % 2 = 1
          THEN F[i].status = (IF hist.outcomes[(i + 1) \div 2].threw THEN "error" ELSE "success")
          ELSE /\ F[i].status = "success"
               /\ F[i].result = Null
               /\ F[i].error = NoError
               /\ F[i].newSessionId = F[i - 1].newSessionId

C22_Witness ==
  /\ Len(Frames(out)) = 4
  /\ Frames(out)[1].result # Null
  /\ Frames(out)[3].status = "error"
  /\ Frames(out)[4].newSessionId = FreshSession

\* the sentinel is present when the worker is about to make its first backend
\* call
SentinelBeforeFirstRound == sentinel /\ pc = "send_prompt" /\ Len(hist.submitted) = 0

\* the worker has ended after exactly one round, by the post-round check
ClosedAfterOneRound ==
  /\ pc = "closed"
  /\ hist.exitPath = "post_round"
  /\ Len(hist.submitted) = 1
  /\ Len(hist.outcomes) = 1
  /\ Len(Frames(out)) = 1

C24_SentinelBeforeMessages ==
  /\ []((pc \in {"drain_list", "drain_file"} /\ drainSite = "poll") =>
          (scSite = "poll" /\ hist.scCalls /\ ~hist.scPresent /\ ~hist.scResult))
  /\ [][(pc = "close_unlink" \/ hist.observed) =>
          /\ mailbox \subseteq mailbox'
          /\ hist'.submitted = hist.submitted
          /\ Frames(out') = Frames(out)
          /\ pc' \in {"close_unlink", "cleanup", "finally", "closed"}]_vars

C24_Witness ==
  /\ pc = "closed"
  /\ hist.exitPath = "poll"
  /\ \E r \in mailbox : r.name \notin hist.afterClose /\ r.kind = "message"
  /\ \A i \in 1..Len(hist.submitted) : Range(hist.submitted[i].prompt.lines) = {}
  /\ Len(Frames(out)) = 2

\* the text n of a published message is still a record of the mailbox, or is
\* held by the running drain, by the prompt being built, or by a submitted
\* prompt
Kept(n) ==
  \/ \E r \in mailbox : r.name = n /\ r.text = n /\ r.kind = "message"
  \/ n \in Range(messages)
  \/ n \in Range(prompt.lines)
  \/ WasSubmitted(n)

\* C25: every published message is kept; a record leaves the mailbox only in
\* the for loop of a drain that listed it, so one published after the listing
\* stays as it is until a later listing; and a drain returns every message it
\* listed
C25_PublishedDuringDrainKept ==
  /\ [](\A n \in 1..published : Kept(n))
  /\ [][/\ (mailbox \ mailbox') \subseteq hist.listed
        /\ (mailbox \ mailbox') # {} => pc = "drain_file"]_vars
  /\ [](DrainDone => \A r \in hist.listed : r.kind = "message" => r.text \in Range(messages))

C25_Witness ==
  /\ DrainDone
  /\ hist.pubSinceList
  /\ Len(messages) = 1
  /\ \E r \in mailbox : r \notin hist.listed /\ r.name > messages[1]

\* C26: while a round runs the tracked text is the latest text notification of
\* that round, empty when there was none, whatever was tracked before; a round
\* that returned with an empty reply reports the latest text notification of
\* this round, and null when there was none
C26_FallbackScopedToRound ==
  /\ pc = "prompting" => lastAssistantText = hist.roundNote
  /\ (pc \in {"close_exists", "close_unlink"} /\ scSite = "post_round"
        /\ ~Last(hist.outcomes).threw /\ Last(hist.outcomes).text = EmptyText) =>
       Last(Frames(out)).result = (IF hist.roundNote = EmptyText THEN Null ELSE hist.roundNote)

C26_Witness ==
  /\ pc = "close_exists"
  /\ scSite = "post_round"
  /\ Len(hist.outcomes) = 2
  /\ ~Last(hist.outcomes).threw
  /\ Last(hist.outcomes).text = EmptyText
  /\ hist.staleNote = <<"n1", "n2">>
  /\ hist.roundNote = EmptyText
  /\ Last(Frames(out)).result = Null

====
